---- MODULE Spec2Model ----
(***************************************************************************)
(* Model of MCPForLedAPI.py: the LED pattern translator (set_led_pattern,  *)
(* get_led_status), the mood and colour tables, and the MCP tool handler   *)
(* call_tool running on the asyncio event loop.                            *)
(*                                                                         *)
(* Python values are modelled as tagged records:                           *)
(*   [t |-> "str",   v |-> <<"1","0">>]   a str, as its characters         *)
(*   [t |-> "int",   v |-> n]             an int                           *)
(*   [t |-> "float", v |-> n]             the float n.0                    *)
(* An argument bag (dict) is a function from the keys it holds.            *)
(***************************************************************************)
EXTENDS Integers, Sequences, FiniteSets, TLC

VARIABLES
    MOOD_PATTERNS,    \* module global dict, name -> pattern
    COLOR_PATTERNS,   \* module global dict, name -> pattern
    calls,            \* handler task id -> the invocation it is serving
    running,          \* the task executing on the event-loop thread, 0 if none
    log               \* history of invocations started: <<name, arguments, pattern>>

vars == <<MOOD_PATTERNS, COLOR_PATTERNS, calls, running, log>>

(***************************************************************************)
(* Bounds of the model.                                                    *)
(***************************************************************************)
MaxLen == 4        \* raw pattern strings of every length 0..MaxLen+1 are tried
MaxTasks == 2      \* handler tasks alive at once in the concurrent specification
MaxCalls == 3      \* invocations recorded in the history specification

(***************************************************************************)
(* Python strings.                                                         *)
(***************************************************************************)
PyStr(s) == [t |-> "str", v |-> s]
PyInt(n) == [t |-> "int", v |-> n]
PyFloat(n) == [t |-> "float", v |-> n]

DecimalDigits == {"0", "1", "2", "3", "4", "5", "6", "7", "8", "9"}

\* The character U+00B2 SUPERSCRIPT TWO, written as one atom.
Sup2 == "^2"

\* Characters c with c.isdigit(): the decimal digits and the other characters
\* of Unicode digit type (Numeric_Type=Digit), of which U+00B2 is one.
PyDigitChars == DecimalDigits \cup {Sup2}

UpperCase == <<"A", "B", "C", "D", "E", "F", "G", "H", "I", "J", "K", "L", "M",
               "N", "O", "P", "Q", "R", "S", "T", "U", "V", "W", "X", "Y", "Z">>
LowerCase == <<"a", "b", "c", "d", "e", "f", "g", "h", "i", "j", "k", "l", "m",
               "n", "o", "p", "q", "r", "s", "t", "u", "v", "w", "x", "y", "z">>

LowerChar(c) ==
    IF \E i \in DOMAIN UpperCase : UpperCase[i] = c
    THEN LowerCase[CHOOSE i \in DOMAIN UpperCase : UpperCase[i] = c]
    ELSE c

UpperChar(c) ==
    IF \E i \in DOMAIN LowerCase : LowerCase[i] = c
    THEN UpperCase[CHOOSE i \in DOMAIN LowerCase : LowerCase[i] = c]
    ELSE c

lower_identity(s) == s

\* str.lower()
lower(s) == [i \in DOMAIN s |-> LowerChar(s[i])]

\* str.isdigit(): non-empty and every character is a digit character
isdigit(s) == Len(s) > 0 /\ \A i \in DOMAIN s : s[i] \in PyDigitChars

\* ":" in pattern
HasColon(s) == \E i \in DOMAIN s : s[i] = ":"

RECURSIVE split(_)
\* pattern.split(":")
split(s) ==
    IF ~HasColon(s) THEN <<s>>
    ELSE LET i == CHOOSE k \in DOMAIN s :
                      s[k] = ":" /\ \A j \in 1..(k - 1) : s[j] # ":"
         IN <<SubSeq(s, 1, i - 1)>> \o split(SubSeq(s, i + 1, Len(s)))

DigitOf(d) == <<"0", "1", "2", "3", "4", "5", "6", "7", "8", "9">>[d + 1]

RECURSIVE NatStr(_)
NatStr(n) == IF n < 10 THEN <<DigitOf(n)>>
             ELSE NatStr(n \div 10) \o <<DigitOf(n % 10)>>

\* f"{x}" for a str, an int or a float with an integral value
Format(x) ==
    CASE x.t = "str" -> x.v
      [] x.t = "int" -> IF x.v < 0 THEN <<"-">> \o NatStr(-x.v) ELSE NatStr(x.v)
      [] x.t = "float" ->
            (IF x.v < 0 THEN <<"-">> \o NatStr(-x.v) ELSE NatStr(x.v)) \o <<".", "0">>

(***************************************************************************)
(* The named pattern tables, as the <<key, value>> pairs of the dict       *)
(* literals, and the dicts built from them.                                *)
(***************************************************************************)
MoodItems ==
    <<
      <<<<"c", "a", "l", "m">>, <<"0", "0", "0", "1">>>>,
      <<<<"a", "l", "e", "r", "t">>, <<"1", "1", "1", "1">>>>,
      <<<<"f", "o", "c", "u", "s">>, <<"0", "0", "1", "0">>>>,
      <<<<"i", "d", "l", "e">>, <<"0", "0", "0", "0">>>>,
      <<<<"e", "n", "e", "r", "g", "e", "t", "i", "c">>, <<"1", "1", "0", "0">>>>,
      <<<<"r", "e", "l", "a", "x", "e", "d">>, <<"0", "0", "1", "1">>>>,
      <<<<"s", "l", "e", "e", "p", "y">>, <<"0", "0", "0", "1">>>>,
      <<<<"h", "a", "p", "p", "y">>, <<"0", "1", "1", "0">>>>,
      <<<<"e", "x", "c", "i", "t", "e", "d">>, <<"1", "0", "1", "0">>>>,
      <<<<"c", "r", "e", "a", "t", "i", "v", "e">>, <<"1", "0", "0", "1">>>>,
      <<<<"w", "a", "r", "n", "i", "n", "g">>, <<"1", "0", "0", "0">>>>,
      <<<<"c", "a", "u", "t", "i", "o", "n">>, <<"0", "1", "0", "0">>>>,
      <<<<"b", "u", "s", "y">>, <<"1", "1", "1", "0">>>>,
      <<<<"t", "h", "i", "n", "k", "i", "n", "g">>, <<"0", "0", "1", "1">>>>,
      <<<<"s", "u", "c", "c", "e", "s", "s">>, <<"0", "0", "1", "0">>>>,
      <<<<"e", "r", "r", "o", "r">>, <<"1", "0", "0", "0">>>>,
      <<<<"p", "a", "r", "t", "y">>, <<"1", "1", "1", "1">>>>,
      <<<<"n", "i", "g", "h", "t">>, <<"0", "0", "0", "1">>>>,
      <<<<"s", "u", "n", "r", "i", "s", "e">>, <<"1", "1", "0", "0">>>>,
      <<<<"s", "u", "n", "s", "e", "t">>, <<"1", "0", "1", "0">>>>
    >>

ColorItems ==
    <<
      <<<<"r", "e", "d">>, <<"1", "0", "0", "0">>>>,
      <<<<"y", "e", "l", "l", "o", "w">>, <<"0", "1", "0", "0">>>>,
      <<<<"g", "r", "e", "e", "n">>, <<"0", "0", "1", "0">>>>,
      <<<<"b", "l", "u", "e">>, <<"0", "0", "0", "1">>>>
    >>

\* A dict literal: the keys of the pairs, each with the value of its last pair
Dict(items) ==
    [k \in {items[i][1] : i \in DOMAIN items} |->
        items[CHOOSE i \in DOMAIN items :
                  items[i][1] = k /\ \A j \in DOMAIN items : items[j][1] = k => j <= i][2]]

LED_API_BASE == "http://localhost:5000"

(***************************************************************************)
(* Outcomes of running code: a raised exception, a device request issued,  *)
(* a value returned.  Texts are sequences of pieces, each a literal of an  *)
(* f-string or a formatted value.                                          *)
(***************************************************************************)
Lit(s) == [k |-> "lit", s |-> s]
Val(v) == [k |-> "val", v |-> v]

Raise(cls, msg) == [kind |-> "raise", cls |-> cls, msg |-> msg]
Request(req) == [kind |-> "request", req |-> req]
TextContent(text) == [type |-> "text", text |-> text]

\* return [TextContent(type="text", text=...)]
Return(text) == [kind |-> "return", content |-> <<TextContent(text)>>]

\* The exception classes the program can meet and whether each derives from
\* Exception (all of them do: KeyError, AttributeError, TypeError, ValueError
\* and its subclass JSONDecodeError, requests' ConnectionError).
ExceptionClasses ==
    {"ValueError", "KeyError", "AttributeError", "TypeError",
     "ConnectionError", "JSONDecodeError"}

\* What the device does with a request
DeviceOutcomes == {"ok", "http_error", "unreachable", "bad_body"}

PostSetLedStatus(pattern) ==
    [method |-> "POST", url |-> <<LED_API_BASE, "/setLedStatus">>, pattern |-> pattern]

GetStatus ==
    [method |-> "GET", url |-> <<LED_API_BASE, "/status">>, pattern |-> <<>>]

(***************************************************************************)
(* set_led_pattern: the validation, up to the request it issues.           *)
(***************************************************************************)
\* not (len(state) != 4 or any(c not in "012" for c in state))
valid_state(state) ==
    Len(state) = 4 /\ \A i \in DOMAIN state : state[i] \in {"0", "1", "2"}

\* not (len(order) != 4 or any(c not in "01234" for c in order))
valid_order(order) ==
    Len(order) = 4 /\ \A i \in DOMAIN order : order[i] \in {"0", "1", "2", "3", "4"}

valid_simple_any_length(pattern) == \A i \in DOMAIN pattern : pattern[i] \in {"0", "1"}

\* not (len(pattern) != 4 or any(c not in "01" for c in pattern))
valid_simple(pattern) ==
    Len(pattern) = 4 /\ \A i \in DOMAIN pattern : pattern[i] \in {"0", "1"}

set_led_pattern(pattern) ==
    IF pattern.t # "str"
    THEN Raise("TypeError", <<Lit("argument of type is not iterable")>>)
    ELSE IF HasColon(pattern.v)
    THEN LET parts == split(pattern.v) IN
         IF Len(parts) # 3
         THEN Raise("ValueError", <<Lit("Extended pattern format must be SSSS:OOOO:III")>>)
         ELSE IF ~valid_state(parts[1])
         THEN Raise("ValueError", <<Lit("State must be 4 digits of 0s, 1s, or 2s (0=off, 1=on, 2=blink)")>>)
         ELSE IF ~valid_order(parts[2])
         THEN Raise("ValueError", <<Lit("Order must be 4 digits of 0-4 (0=no sequence, 1-4=position)")>>)
         ELSE IF ~isdigit(parts[3])
         THEN Raise("ValueError", <<Lit("Interval must be a numeric value in milliseconds")>>)
         ELSE Request(PostSetLedStatus(pattern.v))
    ELSE IF ~valid_simple(pattern.v)
         THEN Raise("ValueError", <<Lit("Invalid LED pattern format. Must be 4 digits of 0s and 1s.")>>)
         ELSE Request(PostSetLedStatus(pattern.v))

get_led_status == Request(GetStatus)

\* requests.post / requests.get followed by res.json(): no status check, so a
\* non-success status with a JSON body is returned like a success
http_result(dev) ==
    CASE dev = "ok" -> [kind |-> "value", v |-> [t |-> "json", v |-> "ok"]]
      [] dev = "http_error" -> [kind |-> "value", v |-> [t |-> "json", v |-> "error"]]
      [] dev = "unreachable" -> Raise("ConnectionError", <<Lit("Connection refused")>>)
      [] dev = "bad_body" -> Raise("JSONDecodeError", <<Lit("Expecting value")>>)

retry_once_when_unreachable(dev) == IF dev = "unreachable" THEN 1 ELSE 0

\* How many times a request is issued again after the device outcome dev:
\* each of requests.post / requests.get is called once, outside any loop
resend_count(dev) == 0

(***************************************************************************)
(* call_tool.  Each branch is split where the handler waits for the        *)
(* device: X_begin runs up to the request (or the exception that ends the  *)
(* branch), X_finish runs from the device's answer to the return.          *)
(***************************************************************************)
NoArguments == [k \in {} |-> 0]

HasKey(arguments, key) == key \in DOMAIN arguments

\* arguments[key] on a missing key
KeyError(key) == Raise("KeyError", <<Lit("'"), Lit(key), Lit("'")>>)

\* arguments.get(key, default)
Get(arguments, key, default) ==
    IF HasKey(arguments, key) THEN arguments[key] ELSE default

\* The dict values that are falsy: None (no entry) is handled by the caller,
\* an empty string is falsy too
Falsy(pattern) == Len(pattern) = 0

\* Looks a named pattern up: arguments[key].lower(), table.get(...), the
\* "if not pattern" test, then set_led_pattern(pattern)
named_begin(arguments, key, table, what) ==
    IF ~HasKey(arguments, key) THEN KeyError(key)
    ELSE IF arguments[key].t # "str"
    THEN Raise("AttributeError", <<Lit("object has no attribute 'lower'")>>)
    ELSE LET n == lower(arguments[key].v) IN
         IF n \notin DOMAIN table \/ Falsy(table[n])
         THEN Raise("ValueError", <<Lit(what), Val(n)>>)
         ELSE set_led_pattern(PyStr(table[n]))

turn_on_led_begin(arguments) ==
    named_begin(arguments, "color", COLOR_PATTERNS, "Unsupported color: ")

turn_on_led_finish(arguments, result) ==
    Return(<<Lit("Turned on "), Val(lower(arguments["color"].v)),
             Lit(" LED. Result: "), Val(result)>>)

turn_off_leds_begin(arguments) == set_led_pattern(PyStr(<<"0", "0", "0", "0">>))

turn_off_leds_finish(arguments, result) ==
    Return(<<Lit("Turned off all LEDs. Result: "), Val(result)>>)

\* A handler that remembers the pattern last put on the wire and does not
\* send it again
skip_unchanged_pattern(arguments) ==
    IF ~HasKey(arguments, "pattern") THEN KeyError("pattern")
    ELSE IF log # <<>> /\ arguments["pattern"].t = "str"
              /\ log[Len(log)][3] = <<arguments["pattern"].v>>
    THEN Raise("ValueError", <<Lit("Pattern unchanged")>>)
    ELSE set_led_pattern(arguments["pattern"])

set_led_pattern_tool_begin(arguments) ==
    IF ~HasKey(arguments, "pattern") THEN KeyError("pattern")
    ELSE set_led_pattern(arguments["pattern"])

set_led_pattern_tool_finish(arguments, result) ==
    Return(<<Lit("Set LED pattern to "), Val(arguments["pattern"].v),
             Lit(". Result: "), Val(result)>>)

set_mood_begin(arguments) ==
    named_begin(arguments, "mood", MOOD_PATTERNS, "Unsupported mood: ")

set_mood_finish(arguments, result) ==
    LET mood == lower(arguments["mood"].v) IN
    Return(<<Lit("Set mood to '"), Val(mood), Lit("' with pattern "),
             Val(MOOD_PATTERNS[mood]), Lit(". Result: "), Val(result)>>)

get_led_status_begin(arguments) == get_led_status

get_led_status_finish(arguments, result) ==
    Return(<<Lit("LED Status: "), Val(result)>>)

DefaultBlinkOrder == PyStr(<<"0", "0", "0", "0">>)
DefaultIntervalMs == PyInt(500)

\* f"{led_states}:{blink_order}:{interval_ms}"
extended_pattern(arguments) ==
    Format(arguments["led_states"]) \o <<":">>
        \o Format(Get(arguments, "blink_order", DefaultBlinkOrder)) \o <<":">>
        \o Format(Get(arguments, "interval_ms", DefaultIntervalMs))

set_blink_pattern_begin(arguments) ==
    IF ~HasKey(arguments, "led_states") THEN KeyError("led_states")
    ELSE set_led_pattern(PyStr(extended_pattern(arguments)))

led_colors == <<"red", "yellow", "green", "blue">>

RECURSIVE state_desc(_, _, _)
\* The loop that builds state_desc, from slot i on
state_desc(led_states, blink_order, i) ==
    IF i > Len(led_states) THEN <<>>
    ELSE (IF led_states[i] = "1"
          THEN <<<<led_colors[i], " steady">>>>
          ELSE IF led_states[i] = "2"
          THEN IF blink_order[i] = "0"
               THEN <<<<led_colors[i], " blinking">>>>
               ELSE <<<<led_colors[i], " blinking (seq ", blink_order[i], ")">>>>
          ELSE <<>>)
         \o state_desc(led_states, blink_order, i + 1)

\* ", ".join(state_desc) if state_desc else "all LEDs off"
desc_text(led_states, blink_order) ==
    LET d == state_desc(led_states, blink_order, 1) IN
    IF d = <<>> THEN <<<<"all LEDs off">>>> ELSE d

set_blink_pattern_finish(arguments, result) ==
    LET led_states == arguments["led_states"]
        blink_order == Get(arguments, "blink_order", DefaultBlinkOrder)
        interval_ms == Get(arguments, "interval_ms", DefaultIntervalMs)
    IN  IF led_states.t # "str"
        THEN Raise("TypeError", <<Lit("object is not iterable")>>)
        ELSE IF blink_order.t # "str" /\ \E i \in DOMAIN led_states.v : led_states.v[i] = "2"
        THEN Raise("TypeError", <<Lit("object is not subscriptable")>>)
        ELSE Return(<<Lit("Set blink pattern: "),
                      Val(desc_text(led_states.v,
                                    IF blink_order.t = "str" THEN blink_order.v
                                    ELSE <<"0", "0", "0", "0">>)),
                      Lit(" at "), Val(interval_ms),
                      Lit("ms interval. Result: "), Val(result)>>)

ToolNames ==
    {"turn_on_led", "turn_off_leds", "set_led_pattern", "set_mood",
     "get_led_status", "set_blink_pattern"}

\* The body of the try block, up to the first device request
try_begin(name, arguments) ==
    CASE name = "turn_on_led" -> turn_on_led_begin(arguments)
      [] name = "turn_off_leds" -> turn_off_leds_begin(arguments)
      [] name = "set_led_pattern" -> set_led_pattern_tool_begin(arguments)
      [] name = "set_mood" -> set_mood_begin(arguments)
      [] name = "get_led_status" -> get_led_status_begin(arguments)
      [] name = "set_blink_pattern" -> set_blink_pattern_begin(arguments)
      [] OTHER -> Raise("ValueError", <<Lit("Unknown tool: "), Val(name)>>)

\* The body of the try block, from the answer dev of the device on
try_finish(name, arguments, dev) ==
    LET res == http_result(dev) IN
    IF res.kind = "raise" THEN res
    ELSE CASE name = "turn_on_led" -> turn_on_led_finish(arguments, res.v)
           [] name = "turn_off_leds" -> turn_off_leds_finish(arguments, res.v)
           [] name = "set_led_pattern" -> set_led_pattern_tool_finish(arguments, res.v)
           [] name = "set_mood" -> set_mood_finish(arguments, res.v)
           [] name = "get_led_status" -> get_led_status_finish(arguments, res.v)
           [] name = "set_blink_pattern" -> set_blink_pattern_finish(arguments, res.v)

catches_only_ValueError(cls) == cls = "ValueError"

\* except Exception: every class of ExceptionClasses derives from Exception
catches(cls) == cls \in ExceptionClasses

\* except Exception as e: return [TextContent(type="text", text=f"Error: {str(e)}")]
except_Exception(out) ==
    IF out.kind = "raise" /\ catches(out.cls)
    THEN Return(<<Lit("Error: ")>> \o out.msg)
    ELSE out

call_tool_begin(name, arguments) == except_Exception(try_begin(name, arguments))

call_tool_finish(name, arguments, dev) ==
    except_Exception(try_finish(name, arguments, dev))

(***************************************************************************)
(* The server: the MCP library starts one handler task per incoming        *)
(* request; the tasks share the one thread of the asyncio event loop, and  *)
(* a task keeps the thread until it awaits or returns.                     *)
(***************************************************************************)
NoOutcome == [kind |-> "none"]

\* An invocation: where its handler is, the request, the device requests it
\* has issued, what the device did with the last one, what the handler gave
Idle == [pc |-> "idle", name |-> "", arguments |-> NoArguments,
         sent |-> <<>>, dev |-> "none", out |-> NoOutcome]

awaits_the_device == {"device"}

\* The points of call_tool at which it awaits: requests.post and requests.get
\* are blocking calls and the body holds no await, so there is none
await_points == {}

\* A request arrives and the library creates the task that will run call_tool
Submit(t, name, arguments) ==
    /\ calls[t].pc = "idle"
    /\ calls' = [calls EXCEPT ![t] = [Idle EXCEPT !.pc = "ready", !.name = name,
                                                   !.arguments = arguments]]
    /\ UNCHANGED <<MOOD_PATTERNS, COLOR_PATTERNS, running, log>>

\* The pattern an invocation puts on the wire, for the history
WirePattern(b) ==
    IF b.kind = "request" /\ b.req.method = "POST" THEN <<b.req.pattern>> ELSE <<>>

\* The event loop runs task t: call_tool from its first line to the device
\* request, or to its return when it issues none
StartCall(t) ==
    /\ running = 0
    /\ calls[t].pc = "ready"
    /\ LET b == call_tool_begin(calls[t].name, calls[t].arguments) IN
       IF b.kind = "request"
       THEN /\ calls' = [calls EXCEPT ![t].pc = "calling", ![t].sent = <<b.req>>]
            /\ running' = IF "device" \in await_points THEN 0 ELSE t
       ELSE /\ calls' = [calls EXCEPT ![t].pc = "done", ![t].out = b]
            /\ running' = 0
    /\ UNCHANGED <<MOOD_PATTERNS, COLOR_PATTERNS>>

Start(t) == StartCall(t) /\ UNCHANGED log

StartLogged(t) ==
    /\ Len(log) < MaxCalls
    /\ StartCall(t)
    /\ log' = Append(log, <<calls[t].name, calls[t].arguments,
                            WirePattern(call_tool_begin(calls[t].name, calls[t].arguments))>>)

\* The device answers task t's request (or the transport fails) and call_tool
\* runs from there to its return
Reply(t, dev) ==
    /\ calls[t].pc = "calling"
    /\ running \in {0, t}
    /\ calls' = [calls EXCEPT
                   ![t].pc = "done",
                   ![t].dev = dev,
                   ![t].sent = @ \o [i \in 1..resend_count(dev) |-> @[1]],
                   ![t].out = call_tool_finish(calls[t].name, calls[t].arguments, dev)]
    /\ running' = 0
    /\ UNCHANGED <<MOOD_PATTERNS, COLOR_PATTERNS, log>>

\* The library sends the returned content to the client and the task ends
Deliver(t) ==
    /\ running = 0
    /\ calls[t].pc = "done"
    /\ calls' = [calls EXCEPT ![t] = Idle]
    /\ UNCHANGED <<MOOD_PATTERNS, COLOR_PATTERNS, running, log>>

(***************************************************************************)
(* The invocations a client may send: tool names and argument bags.        *)
(***************************************************************************)
Strs(A, lo, hi) == UNION {[1..n -> A] : n \in lo..hi}

Join3(a, b, c) == a \o <<":">> \o b \o <<":">> \o c

Absent == [t |-> "absent", v |-> 0]

\* The dict holding the given keys, without those whose value is Absent
Bag(kv) ==
    [k \in {kv[i][1] : i \in {j \in DOMAIN kv : kv[j][2] # Absent}} |->
        kv[CHOOSE i \in DOMAIN kv : kv[i][1] = k][2]]

\* Raw strings for the pattern argument: every string of length up to
\* MaxLen + 1 over a binary digit, a non-binary digit and the colon
RawPatterns == Strs({"0", "1", "2", ":"}, 0, MaxLen + 1)

SomeStates == {<<"1", "0", "0", "1">>, <<"2", "0", "2", "0">>, <<"0", "0", "0", "0">>, <<"3", "0", "0", "1">>, <<"1", "0", "1">>}
SomeOrders == {<<"0", "0", "0", "0">>, <<"1", "2", "3", "4">>, <<"5", "0", "0", "0">>, <<"0", "0">>}
SomeIntervals ==
    {<<"5", "0", "0">>, <<"0">>, <<"9", "9", "9", "9", "9">>, <<"0", "0", "7">>, <<>>,
     <<Sup2>>, <<"5", Sup2>>, <<"5", "x">>, <<"-", "1">>, <<"5", "0", "0", ".", "0">>}

ExtendedPatterns ==
    {Join3(st, o, i) : st \in SomeStates, o \in SomeOrders, i \in SomeIntervals}
        \cup {Join3(st, o, i) \o <<":">> : st \in SomeStates, o \in SomeOrders, i \in {<<"5">>}}

PatternValues ==
    {PyStr(p) : p \in RawPatterns \cup ExtendedPatterns} \cup {PyInt(1010), Absent}

\* Every string of four characters over the state digits, a digit that is no
\* state, and the colon; and strings of other lengths
AllStates ==
    [1..4 -> {"0", "1", "2", "3", ":"}] \cup Strs({"1", "2"}, 0, 3) \cup [1..5 -> {"1", "2"}]

AllOrders ==
    [1..4 -> {"0", "1", "2", "3", "4", "5"}] \cup Strs({"0", "4"}, 0, 3)
        \cup [1..5 -> {"0", "4"}] \cup {<<"0", "0", ":", "0">>, <<"0", "0", "0", "0", ":">>}

IntervalValues ==
    {PyInt(n) : n \in {0, 49, 50, 500, 10000, 10001, 99999, -1}}
        \cup {PyFloat(500), Absent}
        \cup {PyStr(i) : i \in SomeIntervals \cup {<<"1", ":", "0">>}}

BlinkBags ==
    {Bag(<<<<"led_states", ls>>, <<"blink_order", bo>>, <<"interval_ms", iv>>>>) :
        ls \in {PyStr(x) : x \in AllStates} \cup {PyInt(1001), PyInt(2020), PyFloat(1001), Absent},
        bo \in {Absent, PyStr(<<"1", "2", "3", "4">>), PyInt(1234)},
        iv \in {Absent, PyInt(0), PyStr(<<"5", Sup2>>)}}
    \cup
    {Bag(<<<<"led_states", ls>>, <<"blink_order", bo>>, <<"interval_ms", iv>>>>) :
        ls \in {PyStr(x) : x \in {<<"1", "0", "0", "1">>, <<"2", "0", "2", "0">>, <<"3", "0", "0", "1">>}},
        bo \in {PyStr(x) : x \in AllOrders},
        iv \in {Absent, PyInt(10001), PyStr(<<"5", "x">>)}}
    \cup
    {Bag(<<<<"led_states", ls>>, <<"blink_order", bo>>, <<"interval_ms", iv>>>>) :
        ls \in {PyStr(x) : x \in {<<"1", "0", "0", "1">>, <<"2", "0", "2", "0">>, <<"3", "0", "0", "1">>}},
        bo \in {Absent, PyStr(<<"1", "2", "3", "4">>), PyStr(<<"5", "0", "0", "0">>)},
        iv \in IntervalValues}

\* Every upper/lower-casing of the word w
Casings(w) ==
    {[i \in DOMAIN w |-> IF i \in m THEN UpperChar(w[i]) ELSE w[i]] : m \in SUBSET DOMAIN w}

NameBases ==
    {MoodItems[i][1] : i \in DOMAIN MoodItems}
        \cup {ColorItems[i][1] : i \in DOMAIN ColorItems}
        \cup {<<"p", "u", "r", "p", "l", "e">>, <<>>, <<"c", "a", "l", "m", " ">>}

NameValues ==
    {PyStr(n) : n \in UNION {Casings(w) : w \in NameBases}} \cup {PyInt(1), Absent}

OtherNames == {"bogus", "TURN_ON_LED", ""}

Invocations ==
    {[name |-> "turn_on_led", arguments |-> Bag(<<<<"color", v>>>>)] : v \in NameValues}
    \cup {[name |-> "set_mood", arguments |-> Bag(<<<<"mood", v>>>>)] : v \in NameValues}
    \cup {[name |-> "set_led_pattern", arguments |-> Bag(<<<<"pattern", v>>>>)] : v \in PatternValues}
    \cup {[name |-> "set_blink_pattern", arguments |-> a] : a \in BlinkBags}
    \cup {[name |-> n, arguments |-> a] :
            n \in {"turn_off_leds", "get_led_status"} \cup OtherNames,
            a \in {NoArguments, Bag(<<<<"pattern", PyStr(<<"1", "0", "0", "1">>)>>>>)}}

\* A few invocations of every tool, valid and invalid, for the specifications
\* that follow several invocations at once
FewInvocations ==
    {[name |-> "turn_on_led", arguments |-> Bag(<<<<"color", PyStr(v)>>>>)] : v \in {<<"b", "l", "u", "e">>, <<"p", "u", "r", "p", "l", "e">>}}
    \cup {[name |-> "set_mood", arguments |-> Bag(<<<<"mood", PyStr(<<"c", "a", "l", "m">>)>>>>)]}
    \cup {[name |-> "set_led_pattern", arguments |-> Bag(<<<<"pattern", PyStr(<<"0", "0", "0", "0">>)>>>>)]}
    \cup {[name |-> "set_blink_pattern", arguments |-> Bag(<<<<"led_states", PyStr(<<"1", "0", "0", "1">>)>>>>)]}
    \cup {[name |-> n, arguments |-> NoArguments] : n \in {"turn_off_leds", "get_led_status", "bogus"}}

(***************************************************************************)
(* Specifications.                                                         *)
(***************************************************************************)
TablesInit ==
    /\ MOOD_PATTERNS = Dict(MoodItems)
    /\ COLOR_PATTERNS = Dict(ColorItems)

\* One handler task at a time, every invocation of Invocations
Init ==
    /\ TablesInit
    /\ calls = [t \in {1} |-> Idle]
    /\ running = 0
    /\ log = <<>>

SubmitAny(t) ==
    /\ calls[t].pc = "idle"
    /\ \E inv \in Invocations : Submit(t, inv.name, inv.arguments)

SubmitFew(t) ==
    /\ calls[t].pc = "idle"
    /\ \E inv \in FewInvocations : Submit(t, inv.name, inv.arguments)

ReplyAny(t) ==
    /\ calls[t].pc = "calling"
    /\ \E dev \in DeviceOutcomes : Reply(t, dev)

Next ==
    \/ \E t \in DOMAIN calls : SubmitAny(t)
    \/ \E t \in DOMAIN calls : Start(t)
    \/ \E t \in DOMAIN calls : ReplyAny(t)
    \/ \E t \in DOMAIN calls : Deliver(t)

Spec == Init /\ [][Next]_vars

\* One handler task at a time, with the history of the invocations started
NextHistory ==
    \/ \E t \in DOMAIN calls : SubmitFew(t)
    \/ \E t \in DOMAIN calls : StartLogged(t)
    \/ \E t \in DOMAIN calls : ReplyAny(t)
    \/ \E t \in DOMAIN calls : Deliver(t)

SpecHistory == Init /\ [][NextHistory]_vars

\* Several requests in the server at once
InitConcurrent ==
    /\ TablesInit
    /\ calls = [t \in 1..MaxTasks |-> Idle]
    /\ running = 0
    /\ log = <<>>

NextConcurrent ==
    \/ \E t \in DOMAIN calls : SubmitFew(t)
    \/ \E t \in DOMAIN calls : Start(t)
    \/ \E t \in DOMAIN calls : ReplyAny(t)
    \/ \E t \in DOMAIN calls : Deliver(t)

SpecConcurrent == InitConcurrent /\ [][NextConcurrent]_vars

(***************************************************************************)
(* Vocabulary of the properties.                                           *)
(***************************************************************************)
Tasks == DOMAIN calls

Started(c) == c.pc \in {"calling", "done"}

Finished(c) == c.pc = "done"

\* The handler returned a list of exactly one text item
OneText(c) ==
    /\ c.out.kind = "return"
    /\ Len(c.out.content) = 1
    /\ c.out.content[1].type = "text"

TextOf(c) == c.out.content[1].text

IsLit(piece, s) == piece.k = "lit" /\ piece.s = s

\* The text begins with "Error: "
IsError(c) == OneText(c) /\ Len(TextOf(c)) >= 1 /\ IsLit(TextOf(c)[1], "Error: ")

\* The text is "Error: " followed by a message that begins with s
IsErrorSaying(c, s) == IsError(c) /\ Len(TextOf(c)) >= 2 /\ IsLit(TextOf(c)[2], s)

Binary4 == [1..4 -> {"0", "1"}]
State4 == [1..4 -> {"0", "1", "2"}]
Order4 == [1..4 -> {"0", "1", "2", "3", "4"}]

DecimalString(s) == Len(s) >= 1 /\ \A i \in DOMAIN s : s[i] \in DecimalDigits

\* SSSS:OOOO:III, read by position
WellFormedExtended(p) ==
    /\ Len(p) >= 11
    /\ SubSeq(p, 1, 4) \in State4
    /\ p[5] = ":"
    /\ SubSeq(p, 6, 9) \in Order4
    /\ p[10] = ":"
    /\ DecimalString(SubSeq(p, 11, Len(p)))

IsPost(req, pattern) ==
    /\ req.method = "POST"
    /\ req.url = <<"http://localhost:5000", "/setLedStatus">>
    /\ req.pattern = pattern

\* The invocation pushed exactly this pattern to the device, once
Pushed(c, pattern) == Started(c) /\ Len(c.sent) = 1 /\ IsPost(c.sent[1], pattern)

\* The invocation ended in the error whose message begins with s, and sent nothing
Rejected(c, s) == Finished(c) /\ c.sent = <<>> /\ IsErrorSaying(c, s)

StrArg(c, key) == HasKey(c.arguments, key) /\ c.arguments[key].t = "str"

(***************************************************************************)
(* C1: whatever the tool name, the arguments and the device outcome,       *)
(* call_tool returns exactly one text payload and lets no failure through: *)
(* a failure before the device call (validation, name lookup) and a failed *)
(* device call (connection failure, unparsable body) both give a text that *)
(* begins with "Error: ", and an unknown tool name gives an error text     *)
(* containing "Unknown tool".                                              *)
(***************************************************************************)
C1_AlwaysOneTextNeverAFailure ==
    \A t \in Tasks :
        LET c == calls[t] IN
        Finished(c) =>
            /\ OneText(c)
            /\ (c.sent = <<>> => IsError(c))
            /\ (c.dev \in {"unreachable", "bad_body"} => IsError(c))
            /\ (c.name \notin ToolNames => IsErrorSaying(c, "Unknown tool: "))

\* A missing required argument (a KeyError, no ValueError) ended as an error text
C1_Witness ==
    \E t \in Tasks :
        /\ Finished(calls[t])
        /\ calls[t].name = "turn_on_led"
        /\ calls[t].arguments = NoArguments
        /\ IsErrorSaying(calls[t], "'")

(***************************************************************************)
(* C2: every pattern sent to the device in a POST /setLedStatus is a       *)
(* Simple Pattern (4 characters of 0/1) or a well-formed Extended Pattern  *)
(* SSSS:OOOO:III with III a non-empty string of decimal digits; an         *)
(* invocation whose pattern fails validation issues no request.            *)
(***************************************************************************)
ValidationMessages ==
    {"Extended pattern format must be SSSS:OOOO:III",
     "State must be 4 digits of 0s, 1s, or 2s (0=off, 1=on, 2=blink)",
     "Order must be 4 digits of 0-4 (0=no sequence, 1-4=position)",
     "Interval must be a numeric value in milliseconds",
     "Invalid LED pattern format. Must be 4 digits of 0s and 1s."}

C2_EverySentPatternIsWellFormed ==
    \A t \in Tasks :
        /\ \A i \in DOMAIN calls[t].sent :
              LET req == calls[t].sent[i] IN
              req.method = "POST" =>
                  req.pattern \in Binary4 \/ WellFormedExtended(req.pattern)
        /\ (Finished(calls[t]) /\ \E m \in ValidationMessages : IsErrorSaying(calls[t], m))
              => calls[t].sent = <<>>

(***************************************************************************)
(* C3: the set_led_pattern tool, given a string without ':', pushes it     *)
(* unchanged when it is 4 characters of 0/1, and otherwise fails with the  *)
(* invalid-pattern-format error and sends nothing.                         *)
(***************************************************************************)
C3_SimplePatternValidation ==
    \A t \in Tasks :
        LET c == calls[t] IN
        (Started(c) /\ c.name = "set_led_pattern" /\ StrArg(c, "pattern")
            /\ \A i \in DOMAIN c.arguments["pattern"].v : c.arguments["pattern"].v[i] # ":")
        => IF c.arguments["pattern"].v \in Binary4
           THEN Pushed(c, c.arguments["pattern"].v)
           ELSE Rejected(c, "Invalid LED pattern format. Must be 4 digits of 0s and 1s.")

\* "1010" was pushed and a string of the wrong length was rejected earlier or later
C3_Witness ==
    \E t \in Tasks :
        /\ calls[t].name = "set_led_pattern"
        /\ StrArg(calls[t], "pattern")
        /\ calls[t].arguments["pattern"].v = <<"1", "0", "1", "0">>
        /\ Pushed(calls[t], <<"1", "0", "1", "0">>)
        /\ Finished(calls[t])

(***************************************************************************)
(* C4: for every well-formed extended input set_blink_pattern pushes       *)
(* led_states:blink_order:interval, blink_order defaulting to "0000" and   *)
(* interval_ms to 500; a malformed states field gives the state error, a   *)
(* malformed order field the order error, an interval that is no string of *)
(* decimal digits the interval error, in that order.                       *)
(***************************************************************************)
C4_Fields(c) ==
    [states |-> c.arguments["led_states"].v,
     order |-> IF HasKey(c.arguments, "blink_order")
               THEN c.arguments["blink_order"].v ELSE <<"0", "0", "0", "0">>,
     interval |-> IF ~HasKey(c.arguments, "interval_ms") THEN <<"5", "0", "0">>
                  ELSE IF c.arguments["interval_ms"].t = "int" /\ c.arguments["interval_ms"].v >= 0
                  THEN NatStr(c.arguments["interval_ms"].v)
                  ELSE IF c.arguments["interval_ms"].t = "str"
                  THEN c.arguments["interval_ms"].v
                  ELSE <<"?">>]

C4_BlinkEncoding ==
    \A t \in Tasks :
        LET c == calls[t] IN
        (Started(c) /\ c.name = "set_blink_pattern" /\ StrArg(c, "led_states")
            /\ (HasKey(c.arguments, "blink_order") => c.arguments["blink_order"].t = "str"))
        => LET f == C4_Fields(c) IN
           IF f.states \notin State4
           THEN Rejected(c, "State must be 4 digits of 0s, 1s, or 2s (0=off, 1=on, 2=blink)")
           ELSE IF f.order \notin Order4
           THEN Rejected(c, "Order must be 4 digits of 0-4 (0=no sequence, 1-4=position)")
           ELSE IF ~DecimalString(f.interval)
           THEN Rejected(c, "Interval must be a numeric value in milliseconds")
           ELSE Pushed(c, f.states \o <<":">> \o f.order \o <<":">> \o f.interval)

(***************************************************************************)
(* C5: set_mood and turn_on_led look the name up without regard to case:   *)
(* a name that is some casing of a key of the table pushes exactly the     *)
(* table's pattern for that key, any other name fails with the             *)
(* unsupported-mood / unsupported-color error and sends nothing.           *)
(***************************************************************************)
SameIgnoringCase(name, key) ==
    /\ Len(name) = Len(key)
    /\ \A i \in DOMAIN key : name[i] = key[i] \/ name[i] = UpperChar(key[i])

C5_Lookup(c, key, items, what) ==
    (Started(c) /\ StrArg(c, key)) =>
        IF \E i \in DOMAIN items : SameIgnoringCase(c.arguments[key].v, items[i][1])
        THEN \A i \in DOMAIN items :
                SameIgnoringCase(c.arguments[key].v, items[i][1]) => Pushed(c, items[i][2])
        ELSE Rejected(c, what)

C5_Examples(c) ==
    /\ (Started(c) /\ c.name = "set_mood" /\ StrArg(c, "mood")
          /\ c.arguments["mood"].v \in
                {<<"C", "A", "L", "M">>, <<"c", "a", "l", "m">>, <<"C", "a", "l", "m">>,
                 <<"s", "l", "e", "e", "p", "y">>, <<"n", "i", "g", "h", "t">>})
       => Pushed(c, <<"0", "0", "0", "1">>)
    /\ (Started(c) /\ c.name = "turn_on_led" /\ StrArg(c, "color")
          /\ c.arguments["color"].v = <<"b", "l", "u", "e">>)
       => Pushed(c, <<"0", "0", "0", "1">>)
    /\ (Started(c) /\ c.name = "turn_on_led" /\ StrArg(c, "color")
          /\ c.arguments["color"].v = <<"p", "u", "r", "p", "l", "e">>)
       => Rejected(c, "Unsupported color: ")

C5_CaseInsensitiveLookup ==
    \A t \in Tasks :
        LET c == calls[t] IN
        /\ c.name = "set_mood" => C5_Lookup(c, "mood", MoodItems, "Unsupported mood: ")
        /\ c.name = "turn_on_led" => C5_Lookup(c, "color", ColorItems, "Unsupported color: ")
        /\ C5_Examples(c)

\* set_mood("CALM") pushed "0001"
C5_Witness ==
    \E t \in Tasks :
        /\ calls[t].name = "set_mood"
        /\ StrArg(calls[t], "mood")
        /\ calls[t].arguments["mood"].v = <<"C", "A", "L", "M">>
        /\ Pushed(calls[t], <<"0", "0", "0", "1">>)

(***************************************************************************)
(* C6: the set_led_pattern tool pushes a pattern only if its argument is a *)
(* 4-digit binary string; every other argument, strings with ':' among     *)
(* them, gives an error and sends nothing.                                 *)
(***************************************************************************)
C6_ToolAcceptsOnlyBinary ==
    \A t \in Tasks :
        LET c == calls[t] IN
        (Started(c) /\ c.name = "set_led_pattern") =>
            IF StrArg(c, "pattern") /\ c.arguments["pattern"].v \in Binary4
            THEN Pushed(c, c.arguments["pattern"].v)
            ELSE Finished(c) /\ c.sent = <<>> /\ IsError(c)

(***************************************************************************)
(* C7: set_blink_pattern with an interval_ms below 50 or above 10000       *)
(* pushes nothing and returns an error.                                    *)
(***************************************************************************)
interval_ms_minimum == 50
interval_ms_maximum == 10000

C7_IntervalRangeEnforced ==
    \A t \in Tasks :
        LET c == calls[t] IN
        (Started(c) /\ c.name = "set_blink_pattern" /\ HasKey(c.arguments, "interval_ms")
            /\ c.arguments["interval_ms"].t = "int"
            /\ (c.arguments["interval_ms"].v < interval_ms_minimum
                  \/ c.arguments["interval_ms"].v > interval_ms_maximum))
        => Finished(c) /\ c.sent = <<>> /\ IsError(c)

(***************************************************************************)
(* C8: an invocation issues at most one device request, also when the      *)
(* device call fails: the pattern tools at most one POST /setLedStatus,    *)
(* get_led_status exactly one GET /status, an unknown tool none.           *)
(***************************************************************************)
C8_AtMostOneRequest ==
    \A t \in Tasks :
        LET c == calls[t] IN
        /\ Len(c.sent) <= 1
        /\ \A i \in DOMAIN c.sent :
              IF c.name = "get_led_status"
              THEN c.sent[i].method = "GET"
                     /\ c.sent[i].url = <<"http://localhost:5000", "/status">>
              ELSE c.name \in ToolNames /\ IsPost(c.sent[i], c.sent[i].pattern)
        /\ (Started(c) /\ c.name = "get_led_status") => Len(c.sent) = 1
        /\ (Started(c) /\ c.name \notin ToolNames) => c.sent = <<>>

\* The device was unreachable and the invocation ended with its one request
C8_Witness ==
    \E t \in Tasks :
        /\ Finished(calls[t])
        /\ calls[t].dev = "unreachable"
        /\ calls[t].name = "turn_off_leds"
        /\ Len(calls[t].sent) = 1
        /\ IsError(calls[t])

(***************************************************************************)
(* C9: with several invocations in the server at once, no two device calls *)
(* are in flight together, and the handler waiting for the device keeps    *)
(* the thread: no other invocation runs until it has returned.             *)
(***************************************************************************)
InFlight == {t \in Tasks : calls[t].pc = "calling"}

C9_OneDeviceCallAtATime ==
    /\ Cardinality(InFlight) <= 1
    /\ \A t \in InFlight :
          /\ running = t
          /\ \A u \in Tasks \ {t} : ~ENABLED Start(u) /\ ~ENABLED Deliver(u)

\* One invocation waits for the device while another has been submitted
C9_Witness ==
    \E t, u \in Tasks :
        /\ t # u
        /\ calls[t].pc = "calling"
        /\ calls[u].pc = "ready"

(***************************************************************************)
(* C10: invocations are stateless and idempotent: whatever came before,    *)
(* successful or failed, the same tool name and arguments put the same     *)
(* pattern on the wire, and no invocation changes the Mood or Color table. *)
(***************************************************************************)
C10_Idempotent ==
    /\ MOOD_PATTERNS = Dict(MoodItems)
    /\ COLOR_PATTERNS = Dict(ColorItems)
    /\ \A i, j \in DOMAIN log :
          (log[i][1] = log[j][1] /\ log[i][2] = log[j][2]) => log[i][3] = log[j][3]
    /\ \A i \in DOMAIN log :
          (log[i][1] = "set_led_pattern"
             /\ log[i][2] = [pattern |-> PyStr(<<"0", "0", "0", "0">>)])
          => log[i][3] = <<<<"0", "0", "0", "0">>>>

\* set_led_pattern("0000") twice with a failed invocation in between
C10_Witness ==
    /\ Len(log) = 3
    /\ log[1][1] = "set_led_pattern"
    /\ log[2][1] = "bogus"
    /\ log[3][1] = "set_led_pattern"
    /\ log[1][3] = <<<<"0", "0", "0", "0">>>>
    /\ log[3][3] = <<<<"0", "0", "0", "0">>>>
    /\ \E t \in Tasks : Finished(calls[t]) /\ calls[t].dev = "ok"

====
